---- MODULE Spec2Model ----
(***************************************************************************)
(* Admission webhook of the TemporalCluster resource                       *)
(* (webhooks/temporalcluster_webhook.go): defaulting (legacy Prometheus    *)
(* listenAddress migration) and validation (capability gate, version       *)
(* support, Elasticsearch v6 gate, sequential upgrades).                   *)
(*                                                                         *)
(* Strings whose content the code inspects (listenAddress) are sequences   *)
(* of one-character strings.  A nil pointer is the empty sequence <<>>, a  *)
(* set *int32 is the one-element sequence <<n>>.                           *)
(***************************************************************************)
EXTENDS Integers, Sequences, FiniteSets, TLC

VARIABLES op, phase, obj, oldObj, caps, errList, err, input, prev, prevErr, calls

vars == <<op, phase, obj, oldObj, caps, errList, err, input, prev, prevErr, calls>>

(***************************************************************************)
(* Bounds of the model.                                                    *)
(***************************************************************************)
\* longest listenAddress enumerated exhaustively over AddrChars
MaxAddrLen == 4
\* highest minor version enumerated (minors run from 16)
MaxMinor == 19
\* number of consecutive Default calls on one object
MaxCalls == 2

(***************************************************************************)
(* int32 and strconv.ParseInt(port, 10, 32)                                *)
(***************************************************************************)
MaxInt32 == 2147483647
MinInt32 == (-2147483647) - 1

Digits == <<"0", "1", "2", "3", "4", "5", "6", "7", "8", "9">>

IsDigit(c) == \E d \in 1..10 : Digits[d] = c

DigitVal(c) == (CHOOSE d \in 1..10 : Digits[d] = c) - 1

\* strconv.ParseUint's loop over the bytes of s, base 10.  The magnitude is
\* accumulated as a non-positive number so that 2^31 (the magnitude of
\* MinInt32) fits the checker's integers; any magnitude above 2^31 is a
\* range error for ParseInt(_, 10, 32) whatever the sign.
RECURSIVE parseDigits(_, _, _)
parseDigits(s, k, acc) ==
  IF k > Len(s) THEN [val |-> acc, err |-> ""]
  ELSE IF ~IsDigit(s[k]) THEN [val |-> 0, err |-> "syntax"]
  ELSE LET d == DigitVal(s[k]) IN
       IF acc < -214748364 \/ (acc = -214748364 /\ d > 8)
       THEN [val |-> 0, err |-> "range"]
       ELSE parseDigits(s, k + 1, acc * 10 - d)

\* strconv.ParseInt(s, 10, 32): optional sign, digits, signed 32-bit range.
ParseInt(s) ==
  IF s = <<>> THEN [val |-> 0, err |-> "syntax"]
  ELSE LET neg  == s[1] = "-"
           body == IF s[1] = "+" \/ s[1] = "-" THEN Tail(s) ELSE s
       IN IF body = <<>> THEN [val |-> 0, err |-> "syntax"]
          ELSE LET un == parseDigits(body, 1, 0) IN
               IF un.err # "" THEN un
               ELSE IF ~neg /\ un.val = MinInt32 THEN [val |-> 0, err |-> "range"]
               ELSE [val |-> IF neg THEN un.val ELSE -un.val, err |-> ""]

(***************************************************************************)
(* net.SplitHostPort                                                       *)
(***************************************************************************)
\* bytealg.IndexByteString, 1-based; 0 when c does not occur in s
IndexByte(s, c) ==
  IF \E i \in 1..Len(s) : s[i] = c
  THEN CHOOSE i \in 1..Len(s) : s[i] = c /\ \A j \in 1..(i - 1) : s[j] # c
  ELSE 0

\* bytealg.LastIndexByteString, 1-based; 0 when c does not occur in s
LastIndexByte(s, c) ==
  IF \E i \in 1..Len(s) : s[i] = c
  THEN CHOOSE i \in 1..Len(s) : s[i] = c /\ \A j \in (i + 1)..Len(s) : s[j] # c
  ELSE 0

addrErr(why) == [host |-> <<>>, port |-> <<>>, err |-> why]

\* the tail of net.SplitHostPort: stray brackets after positions j and k
splitTail(hostport, host, i, j, k) ==
  IF IndexByte(SubSeq(hostport, j, Len(hostport)), "[") > 0
  THEN addrErr("unexpected '[' in address")
  ELSE IF IndexByte(SubSeq(hostport, k, Len(hostport)), "]") > 0
  THEN addrErr("unexpected ']' in address")
  ELSE [host |-> host, port |-> SubSeq(hostport, i + 1, Len(hostport)), err |-> ""]

SplitHostPort(hostport) ==
  LET i == LastIndexByte(hostport, ":") IN
  IF i = 0 THEN addrErr("missing port in address")
  ELSE IF hostport[1] = "["
  THEN LET end == IndexByte(hostport, "]") IN
       IF end = 0 THEN addrErr("missing ']' in address")
       ELSE IF end = Len(hostport) THEN addrErr("missing port in address")
       ELSE IF end + 1 = i
            THEN splitTail(hostport, SubSeq(hostport, 2, end - 1), i, 2, end + 1)
       ELSE IF hostport[end + 1] = ":" THEN addrErr("too many colons in address")
       ELSE addrErr("missing port in address")
  ELSE LET host == SubSeq(hostport, 1, i - 1) IN
       IF IndexByte(host, ":") > 0 THEN addrErr("too many colons in address")
       ELSE splitTail(hostport, host, i, 1, 1)

(***************************************************************************)
(* pkg/version: the Version model (§4.1)                                   *)
(***************************************************************************)
\* a version that parses into (major, minor, patch)
Version(ma, mi, pa) == [ok |-> TRUE, major |-> ma, minor |-> mi, patch |-> pa]

\* a stored version that cannot be parsed into (major, minor, patch)
Unparsable == [ok |-> FALSE, major |-> 0, minor |-> 0, patch |-> 0]

\* the total order on (major, minor, patch)
VersionLess(a, b) ==
  \/ a.major < b.major
  \/ a.major = b.major /\ a.minor < b.minor
  \/ a.major = b.major /\ a.minor = b.minor /\ a.patch < b.patch

V1_18_0 == Version(1, 18, 0)

\* Version.GreaterOrEqual(milestone)
GreaterOrEqual(v, milestone) == v.ok /\ ~VersionLess(v, milestone)

\* version.SupportedVersionsRange, the process-wide range (§8: 1.17 - 1.23)
SupportedVersionsRange == [lo |-> Version(1, 17, 0), hi |-> Version(1, 24, 0)]

\* Version.Validate(): "" or the unsupported-version error
VersionValidate(v) ==
  IF v.ok /\ ~VersionLess(v, SupportedVersionsRange.lo)
          /\ VersionLess(v, SupportedVersionsRange.hi)
  THEN "" ELSE "unsupported version"

\* Version.UpgradeConstraint(): the matcher, or the malformed-version error
UpgradeConstraint(v) ==
  IF v.ok THEN [err |-> "", major |-> v.major, minor |-> v.minor + 1]
  ELSE [err |-> "malformed version", major |-> 0, minor |-> 0]

\* constraint.Check(candidate)
Check(constraint, candidate) ==
  candidate.ok /\ candidate.major = constraint.major
               /\ candidate.minor = constraint.minor

(***************************************************************************)
(* api/v1beta1: the fields of TemporalCluster the webhook reads            *)
(***************************************************************************)
Nil == <<>>

\* pointer.Int32
Int32Ptr(n) == <<n>>

\* MetricsSpec.MetricsEnabled()
MetricsEnabled(metrics) == metrics.set /\ metrics.enabled

\* TemporalCluster.MTLSWithCertManagerEnabled()
MTLSWithCertManagerEnabled(cluster) == cluster.mtls = "cert-manager"

\* TemporalCluster.Default(): bulk default-filling of omitted optional fields
ClusterDefault(cluster) == [cluster EXCEPT !.defaulted = TRUE]

(***************************************************************************)
(* Errors                                                                  *)
(***************************************************************************)
NoError == [kind |-> "nil", msg |-> "", errs |-> <<>>]

\* fmt.Errorf: a plain (hard) error
Errorf(msg) == [kind |-> "error", msg |-> msg, errs |-> <<>>]

\* field.Invalid
FieldInvalid(path, detail) == [path |-> path, kind |-> "Invalid", detail |-> detail]

\* field.Forbidden
FieldForbidden(path, detail) == [path |-> path, kind |-> "Forbidden", detail |-> detail]

aggregateClusterErrors(cluster, errs) ==
  IF Len(errs) = 0 THEN NoError
  ELSE [kind |-> "Invalid", msg |-> "", errs |-> errs]

(***************************************************************************)
(* Default                                                                 *)
(***************************************************************************)
WithPrometheus(cluster, addr, port) ==
  [cluster EXCEPT !.metrics.listenAddress = addr, !.metrics.listenPort = port]

\* faulty variant: listenAddress is not emptied after the migration
ClearsNothingDefault(w, cluster) ==
  LET m == cluster.metrics IN
  IF MetricsEnabled(m) /\ m.prometheus /\ m.listenAddress # <<>> /\ m.listenPort = Nil
  THEN LET sp == SplitHostPort(m.listenAddress) IN
       IF sp.err # ""
       THEN [cluster |-> cluster, err |-> Errorf("can't parse listenAddress")]
       ELSE LET portInt == ParseInt(sp.port) IN
            IF portInt.err # ""
            THEN [cluster |-> cluster, err |-> Errorf("can't parse listenAddress port")]
            ELSE [cluster |-> ClusterDefault(
                                WithPrometheus(cluster, m.listenAddress, Int32Ptr(portInt.val))),
                  err |-> NoError]
  ELSE [cluster |-> ClusterDefault(cluster), err |-> NoError]

\* faulty variant: the host is kept in listenAddress and the port is dropped
KeepsHostDefault(w, cluster) ==
  LET m == cluster.metrics IN
  IF MetricsEnabled(m) /\ m.prometheus /\ m.listenAddress # <<>> /\ m.listenPort = Nil
  THEN LET sp == SplitHostPort(m.listenAddress) IN
       IF sp.err # ""
       THEN [cluster |-> cluster, err |-> Errorf("can't parse listenAddress")]
       ELSE LET portInt == ParseInt(sp.port) IN
            IF portInt.err # ""
            THEN [cluster |-> cluster, err |-> Errorf("can't parse listenAddress port")]
            ELSE [cluster |-> ClusterDefault(WithPrometheus(cluster, sp.host, Nil)),
                  err |-> NoError]
  ELSE [cluster |-> ClusterDefault(cluster), err |-> NoError]

\* faulty variant: the port is narrowed to 16 bits
Int16PortDefault(w, cluster) ==
  LET m == cluster.metrics IN
  IF MetricsEnabled(m) /\ m.prometheus /\ m.listenAddress # <<>> /\ m.listenPort = Nil
  THEN LET sp == SplitHostPort(m.listenAddress) IN
       IF sp.err # ""
       THEN [cluster |-> cluster, err |-> Errorf("can't parse listenAddress")]
       ELSE LET portInt == ParseInt(sp.port) IN
            IF portInt.err # ""
            THEN [cluster |-> cluster, err |-> Errorf("can't parse listenAddress port")]
            ELSE [cluster |-> ClusterDefault(
                                WithPrometheus(cluster, <<>>,
                                               Int32Ptr(((portInt.val + 32768) % 65536) - 32768))),
                  err |-> NoError]
  ELSE [cluster |-> ClusterDefault(cluster), err |-> NoError]

\* faulty variant: the default values are filled in before the migration
DefaultsFirstDefault(w, cluster) ==
  LET filled == ClusterDefault(cluster)
      m == cluster.metrics IN
  IF MetricsEnabled(m) /\ m.prometheus /\ m.listenAddress # <<>> /\ m.listenPort = Nil
  THEN LET sp == SplitHostPort(m.listenAddress) IN
       IF sp.err # ""
       THEN [cluster |-> filled, err |-> Errorf("can't parse listenAddress")]
       ELSE LET portInt == ParseInt(sp.port) IN
            IF portInt.err # ""
            THEN [cluster |-> filled, err |-> Errorf("can't parse listenAddress port")]
            ELSE [cluster |-> WithPrometheus(filled, <<>>, Int32Ptr(portInt.val)),
                  err |-> NoError]
  ELSE [cluster |-> filled, err |-> NoError]

\* TemporalClusterWebhook.Default: the object after the call and the error
Default(w, cluster) ==
  LET m == cluster.metrics IN
  IF MetricsEnabled(m) /\ m.prometheus /\ m.listenAddress # <<>> /\ m.listenPort = Nil
  THEN LET sp == SplitHostPort(m.listenAddress) IN
       IF sp.err # ""
       THEN [cluster |-> cluster, err |-> Errorf("can't parse listenAddress")]
       ELSE LET portInt == ParseInt(sp.port) IN
            IF portInt.err # ""
            THEN [cluster |-> cluster, err |-> Errorf("can't parse listenAddress port")]
            ELSE [cluster |-> ClusterDefault(
                                WithPrometheus(cluster, <<>>, Int32Ptr(portInt.val))),
                  err |-> NoError]
  ELSE [cluster |-> ClusterDefault(cluster), err |-> NoError]

(***************************************************************************)
(* Validation                                                              *)
(***************************************************************************)
MTLSProviderPath == "spec.mTLS.provider"
VersionPath == "spec.version"
ElasticsearchVersionPath == "spec.persistence.advancedVisibilityStore.elasticsearch.version"

CertManagerUnavailable ==
  FieldInvalid(MTLSProviderPath,
               "Can't use cert-manager as mTLS provider as it's not available in the cluster")

UnsupportedVersion == FieldForbidden(VersionPath, "Unsupported temporal version")

ElasticsearchV6Unsupported ==
  FieldForbidden(ElasticsearchVersionPath,
                 "temporal cluster version >= 1.18.0 doesn't support ElasticSearch v6")

UnauthorizedUpgrade ==
  FieldForbidden(VersionPath,
                 "Unauthorized version upgrade. Only sequential version upgrades are allowed")

\* faulty variant: the capability snapshot is not consulted
IgnoresCapabilityValidateCluster(w, cluster) ==
  (IF MTLSWithCertManagerEnabled(cluster)
   THEN <<CertManagerUnavailable>> ELSE <<>>)
  \o (IF VersionValidate(cluster.version) # ""
      THEN <<UnsupportedVersion>> ELSE <<>>)
  \o (IF /\ GreaterOrEqual(cluster.version, V1_18_0)
         /\ cluster.advancedVisibilityStore \notin {"nil", "sql"}
         /\ cluster.advancedVisibilityStore = "v6"
      THEN <<ElasticsearchV6Unsupported>> ELSE <<>>)

\* faulty variant: returns at the first error found
ShortCircuitValidateCluster(w, cluster) ==
  IF MTLSWithCertManagerEnabled(cluster) /\ ~w.AvailableAPIs.CertManager
  THEN <<CertManagerUnavailable>>
  ELSE IF VersionValidate(cluster.version) # "" THEN <<UnsupportedVersion>>
  ELSE IF /\ GreaterOrEqual(cluster.version, V1_18_0)
          /\ cluster.advancedVisibilityStore \notin {"nil", "sql"}
          /\ cluster.advancedVisibilityStore = "v6"
  THEN <<ElasticsearchV6Unsupported>>
  ELSE <<>>

\* faulty variant: the Elasticsearch gate applies from 1.17.0, not from 1.18.0
EarlyGateValidateCluster(w, cluster) ==
  (IF MTLSWithCertManagerEnabled(cluster) /\ ~w.AvailableAPIs.CertManager
   THEN <<CertManagerUnavailable>> ELSE <<>>)
  \o (IF VersionValidate(cluster.version) # ""
      THEN <<UnsupportedVersion>> ELSE <<>>)
  \o (IF /\ GreaterOrEqual(cluster.version, Version(1, 17, 0))
         /\ cluster.advancedVisibilityStore \notin {"nil", "sql"}
         /\ cluster.advancedVisibilityStore = "v6"
      THEN <<ElasticsearchV6Unsupported>> ELSE <<>>)

\* TemporalClusterWebhook.validateCluster: the field.ErrorList.
\* advancedVisibilityStore is "nil" (no store), "sql" (a store whose
\* Elasticsearch is nil) or the Elasticsearch version of the store.
validateCluster(w, cluster) ==
  (IF MTLSWithCertManagerEnabled(cluster) /\ ~w.AvailableAPIs.CertManager
   THEN <<CertManagerUnavailable>> ELSE <<>>)
  \o (IF VersionValidate(cluster.version) # ""
      THEN <<UnsupportedVersion>> ELSE <<>>)
  \o (IF /\ GreaterOrEqual(cluster.version, V1_18_0)
         /\ cluster.advancedVisibilityStore \notin {"nil", "sql"}
         /\ cluster.advancedVisibilityStore = "v6"
      THEN <<ElasticsearchV6Unsupported>> ELSE <<>>)

\* TemporalClusterWebhook.ValidateCreate
ValidateCreate(w, cluster) ==
  aggregateClusterErrors(cluster, validateCluster(w, cluster))

\* faulty variant: the constraint is computed from the new version
NewConstraintValidateUpdate(w, oldCluster, newCluster) ==
  LET errs == validateCluster(w, newCluster)
      constraint == UpgradeConstraint(newCluster.version) IN
  IF constraint.err # ""
  THEN Errorf("can't compute version upgrade constraint")
  ELSE aggregateClusterErrors(newCluster,
         IF ~Check(constraint, newCluster.version)
         THEN Append(errs, UnauthorizedUpgrade) ELSE errs)

\* faulty variant: a constraint that cannot be computed is skipped
SkipsConstraintValidateUpdate(w, oldCluster, newCluster) ==
  LET errs == validateCluster(w, newCluster)
      constraint == UpgradeConstraint(oldCluster.version) IN
  IF constraint.err # ""
  THEN aggregateClusterErrors(newCluster, errs)
  ELSE aggregateClusterErrors(newCluster,
         IF ~Check(constraint, newCluster.version)
         THEN Append(errs, UnauthorizedUpgrade) ELSE errs)

\* TemporalClusterWebhook.ValidateUpdate
ValidateUpdate(w, oldCluster, newCluster) ==
  LET errs == validateCluster(w, newCluster)
      constraint == UpgradeConstraint(oldCluster.version) IN
  IF constraint.err # ""
  THEN Errorf("can't compute version upgrade constraint")
  ELSE aggregateClusterErrors(newCluster,
         IF ~Check(constraint, newCluster.version)
         THEN Append(errs, UnauthorizedUpgrade) ELSE errs)

\* faulty variant: deletion runs the create rules
ValidatingValidateDelete(w, cluster) == ValidateCreate(w, cluster)

\* TemporalClusterWebhook.ValidateDelete
ValidateDelete(w, cluster) == NoError

(***************************************************************************)
(* Inputs                                                                  *)
(***************************************************************************)
Majors == {1, 2}
Minors == 16..MaxMinor
Patches == {0, 5, 9}

Versions ==
  {Version(ma, mi, pa) : ma \in Majors, mi \in Minors, pa \in Patches}
  \cup {Unparsable}

MTLSProviders == {"none", "cert-manager", "linkerd"}

AdvancedVisibilityStores == {"nil", "sql", "v6", "v7"}

\* Spec.Metrics == nil
NoMetrics ==
  [set |-> FALSE, enabled |-> FALSE, prometheus |-> FALSE,
   listenAddress |-> <<>>, listenPort |-> Nil]

\* Spec.Metrics set, Prometheus == nil
MetricsOnly(enabled) ==
  [set |-> TRUE, enabled |-> enabled, prometheus |-> FALSE,
   listenAddress |-> <<>>, listenPort |-> Nil]

\* Spec.Metrics.Prometheus set
Prometheus(enabled, addr, port) ==
  [set |-> TRUE, enabled |-> enabled, prometheus |-> TRUE,
   listenAddress |-> addr, listenPort |-> port]

Cluster(version, mtls, store, metrics) ==
  [version |-> version, mtls |-> mtls, advancedVisibilityStore |-> store,
   metrics |-> metrics, defaulted |-> FALSE]

AddrChars == {"h", ":", "[", "]", "7", "-"}

\* every string over AddrChars of at most n characters
Strings(n) == UNION {[1..k -> AddrChars] : k \in 0..n}

\* the host of the e2e suite's listAddress, "0.0.0.0:9090", among others
SampleHosts ==
  {<<>>, <<"h">>, <<"0", ".", "0", ".", "0", ".", "0">>,
   <<"[", ":", ":", "1", "]">>, <<"[", "h", "]">>}

SamplePorts == {0, 7, 9090, 32768, 65536, MaxInt32, -1, -2147483647}

\* strconv.Itoa, for numbers above MinInt32
RECURSIVE utoa(_)
utoa(n) == IF n < 10 THEN <<Digits[n + 1]>> ELSE Append(utoa(n \div 10), Digits[(n % 10) + 1])

Itoa(n) == IF n < 0 THEN <<"-">> \o utoa(-n) ELSE utoa(n)

HostPort(host, port) == host \o <<":">> \o Itoa(port)

SampleAddrs ==
  {HostPort(h, p) : h \in SampleHosts, p \in SamplePorts}
  \cup { <<"h", ":", "2", "1", "4", "7", "4", "8", "3", "6", "4", "8">>,
         <<"h", ":", "-", "2", "1", "4", "7", "4", "8", "3", "6", "4", "8">>,
         <<"h", ":", "-", "2", "1", "4", "7", "4", "8", "3", "6", "4", "9">>,
         <<"h", ":", "+", "0", "7">>,
         <<"h", ":", "7", "_", "7">>,
         <<"n", "o", "t", "-", "a", "n", "-", "a", "d", "d", "r", "e", "s", "s">> }

Addrs == Strings(MaxAddrLen) \cup SampleAddrs

Ports == {Nil, Int32Ptr(7), Int32Ptr(9090)}

BaseCluster == Cluster(Version(1, 18, 0), "none", "nil", NoMetrics)

\* the metrics configurations Default is exercised on
DefaultMetrics ==
  {NoMetrics, MetricsOnly(FALSE), MetricsOnly(TRUE)}
  \cup {Prometheus(e, a, p) : e \in BOOLEAN, a \in Addrs, p \in Ports}

DefaultInputs == {[BaseCluster EXCEPT !.metrics = m] : m \in DefaultMetrics}

\* the metrics configurations of the admission flow
FlowMetrics ==
  { NoMetrics,
    Prometheus(TRUE, <<"h", ":", "7">>, Nil),
    Prometheus(TRUE, <<"h">>, Nil) }

FlowClusters ==
  {Cluster(v, m, s, x) : v \in Versions, m \in MTLSProviders,
                         s \in AdvancedVisibilityStores, x \in FlowMetrics}

OldClusters == {[BaseCluster EXCEPT !.version = v, !.defaulted = TRUE] : v \in Versions}

Webhook == [AvailableAPIs |-> [CertManager |-> caps]]

(***************************************************************************)
(* The admission flow (§4.4): Received -> Defaulted -> Validated ->        *)
(* Admitted | Rejected; deletes go from Received to Admitted.              *)
(***************************************************************************)
Init ==
  /\ op \in {"CREATE", "UPDATE", "DELETE"}
  /\ phase = "Received"
  /\ obj \in FlowClusters
  /\ oldObj \in (IF op = "UPDATE" THEN {<<o>> : o \in OldClusters} ELSE {Nil})
  /\ caps \in BOOLEAN
  /\ errList = <<>>
  /\ err = NoError
  /\ input = obj
  /\ prev = obj
  /\ prevErr = NoError
  /\ calls = 0

\* the mutating webhook: Default on create and update
Defaulting ==
  /\ op \in {"CREATE", "UPDATE"}
  /\ phase = "Received"
  /\ LET r == Default(Webhook, obj) IN
     /\ obj' = r.cluster
     /\ err' = r.err
     /\ phase' = IF r.err = NoError THEN "Defaulted" ELSE "Rejected"
  /\ prev' = obj
  /\ prevErr' = err
  /\ calls' = calls + 1
  /\ UNCHANGED <<op, oldObj, caps, errList, input>>

\* the validating webhook: ValidateCreate or ValidateUpdate; errList is the
\* ErrorList validateCluster hands to it
Validating ==
  /\ phase = "Defaulted"
  /\ errList' = validateCluster(Webhook, obj)
  /\ err' = IF op = "CREATE" THEN ValidateCreate(Webhook, obj)
            ELSE ValidateUpdate(Webhook, oldObj[1], obj)
  /\ phase' = "Validated"
  /\ UNCHANGED <<op, obj, oldObj, caps, input, prev, prevErr, calls>>

\* the decision returned to the API server
Deciding ==
  /\ phase = "Validated"
  /\ phase' = IF err = NoError THEN "Admitted" ELSE "Rejected"
  /\ UNCHANGED <<op, obj, oldObj, caps, errList, err, input, prev, prevErr, calls>>

\* a delete request: no defaulting, ValidateDelete decides
Deleting ==
  /\ op = "DELETE"
  /\ phase = "Received"
  /\ err' = ValidateDelete(Webhook, obj)
  /\ phase' = IF err' = NoError THEN "Admitted" ELSE "Rejected"
  /\ UNCHANGED <<op, obj, oldObj, caps, errList, input, prev, prevErr, calls>>

Next == Defaulting \/ Validating \/ Deciding \/ Deleting

Spec == Init /\ [][Next]_vars

(***************************************************************************)
(* Default applied repeatedly to one object                                *)
(***************************************************************************)
DefaultInit ==
  /\ op = "CREATE"
  /\ phase = "Received"
  /\ obj \in DefaultInputs
  /\ oldObj = Nil
  /\ caps \in BOOLEAN
  /\ errList = <<>>
  /\ err = NoError
  /\ input = obj
  /\ prev = obj
  /\ prevErr = NoError
  /\ calls = 0

CallDefault ==
  /\ calls < MaxCalls
  /\ LET r == Default(Webhook, obj) IN
     /\ obj' = r.cluster
     /\ err' = r.err
  /\ prev' = obj
  /\ prevErr' = err
  /\ calls' = calls + 1
  /\ UNCHANGED <<op, phase, oldObj, caps, errList, input>>

DefaultNext == CallDefault

DefaultSpec == DefaultInit /\ [][DefaultNext]_vars

(***************************************************************************)
(* The rules as the specification states them                              *)
(***************************************************************************)
\* the request went through Default and the validating webhook returned
Validated == phase \in {"Validated", "Admitted", "Rejected"} /\ obj.defaulted

\* the request was admitted
Admitted == phase \in {"Validated", "Admitted"} /\ err = NoError

\* the validating webhook returned a structured rejection
StructuredRejection == err.kind = "Invalid" /\ Len(err.errs) > 0

OldParsable == op = "UPDATE" => oldObj[1].version.ok

HasEntry(list, kind, path) ==
  \E i \in 1..Len(list) : list[i].kind = kind /\ list[i].path = path

HasEntryAt(list, path) == \E i \in 1..Len(list) : list[i].path = path

\* rule 1: cert-manager mTLS without the cert-manager capability
MTLSGateViolated == obj.mtls = "cert-manager" /\ ~caps

\* rule 2: the version is outside 1.17 - 1.23
VersionGateViolated ==
  ~(obj.version.ok /\ obj.version.major = 1 /\ obj.version.minor \in 17..23)

\* rule 3: version >= 1.18.0 with an Elasticsearch v6 visibility store
SearchGateViolated ==
  /\ obj.version.ok
  /\ obj.version.major > 1 \/ (obj.version.major = 1 /\ obj.version.minor >= 18)
  /\ obj.advancedVisibilityStore = "v6"

\* rule 4: the new version is the old one's next minor version
Sequential ==
  /\ obj.version.ok
  /\ obj.version.major = oldObj[1].version.major
  /\ obj.version.minor = oldObj[1].version.minor + 1

UpgradeGateViolated == op = "UPDATE" /\ ~Sequential

ExpectedRules ==
  (IF MTLSGateViolated THEN <<"mtls">> ELSE <<>>)
  \o (IF VersionGateViolated THEN <<"version">> ELSE <<>>)
  \o (IF SearchGateViolated THEN <<"search">> ELSE <<>>)
  \o (IF UpgradeGateViolated THEN <<"upgrade">> ELSE <<>>)

RuleOf(e) ==
  IF e = CertManagerUnavailable THEN "mtls"
  ELSE IF e = UnsupportedVersion THEN "version"
  ELSE IF e = ElasticsearchV6Unsupported THEN "search"
  ELSE IF e = UnauthorizedUpgrade THEN "upgrade"
  ELSE "unknown"

ReportedRules == [i \in 1..Len(err.errs) |-> RuleOf(err.errs[i])]

(***************************************************************************)
(* C1                                                                      *)
(***************************************************************************)
\* C1: an update whose old version parses and whose new object passes rules
\* 1-3 is admitted if and only if the new version has the old major and the
\* old minor plus one; every other update is rejected with a Forbidden entry
\* at spec.version.
C1_SequentialUpgradeGate ==
  (/\ Validated /\ op = "UPDATE" /\ oldObj[1].version.ok
   /\ ~MTLSGateViolated /\ ~VersionGateViolated /\ ~SearchGateViolated)
  => /\ Admitted <=> Sequential
     /\ phase = "Admitted" => Sequential
     /\ ~Sequential => /\ StructuredRejection
                       /\ HasEntry(err.errs, "Forbidden", VersionPath)
                       /\ phase # "Admitted"

C1_Witness ==
  /\ op = "UPDATE" /\ phase = "Admitted" /\ err = NoError
  /\ oldObj[1].version = Version(1, 17, 5)
  /\ obj.version = Version(1, 18, 0)

(***************************************************************************)
(* C2                                                                      *)
(***************************************************************************)
\* C2 as stated: with cert-manager mTLS and CertManager == false the error
\* list has a Forbidden entry at spec.mTLS.provider; with CertManager == true
\* it has no entry at spec.mTLS.provider.
C2_ForbiddenAtProvider ==
  Validated =>
    /\ (obj.mtls = "cert-manager" /\ ~caps) => HasEntry(errList, "Forbidden", MTLSProviderPath)
    /\ caps => ~HasEntryAt(errList, MTLSProviderPath)

\* C2 as amended: with cert-manager mTLS and CertManager == false the error
\* list has an Invalid entry at spec.mTLS.provider, and that entry is in the
\* rejection returned; with CertManager == true the list has no entry at
\* spec.mTLS.provider.
C2_InvalidAtProvider ==
  Validated =>
    /\ (obj.mtls = "cert-manager" /\ ~caps) =>
         /\ HasEntry(errList, "Invalid", MTLSProviderPath)
         /\ ~HasEntry(errList, "Forbidden", MTLSProviderPath)
         /\ OldParsable => /\ StructuredRejection
                           /\ HasEntry(err.errs, "Invalid", MTLSProviderPath)
    /\ caps => ~HasEntryAt(errList, MTLSProviderPath) /\ ~HasEntryAt(err.errs, MTLSProviderPath)

C2_Witness ==
  /\ op = "CREATE" /\ phase = "Rejected" /\ obj.defaulted
  /\ obj.mtls = "cert-manager" /\ ~caps
  /\ err.kind = "Invalid" /\ err.errs = <<CertManagerUnavailable>>

(***************************************************************************)
(* C3                                                                      *)
(***************************************************************************)
BothSet(cluster) ==
  cluster.metrics.listenAddress # <<>> /\ cluster.metrics.listenPort # Nil

\* C3 as stated: after a Default that returns no error the object never has
\* both a non-empty listenAddress and a set listenPort.
C3_NeverBoth == (calls >= 1 /\ err = NoError) => ~BothSet(obj)

\* C3 as amended: after a Default that returns no error the object has both
\* a non-empty listenAddress and a set listenPort only if the input already
\* had both, and such an input keeps both values as they were.
C3_BothOnlyIfGiven ==
  (calls >= 1 /\ err = NoError) =>
    /\ BothSet(obj) => BothSet(input)
    /\ BothSet(input) => obj.metrics = input.metrics

C3_Witness ==
  /\ calls = 1 /\ err = NoError
  /\ MetricsEnabled(input.metrics) /\ input.metrics.prometheus
  /\ input.metrics.listenAddress = <<"h", ":", "7">> /\ input.metrics.listenPort = Nil
  /\ obj.metrics.listenAddress = <<>> /\ obj.metrics.listenPort = Int32Ptr(7)

(***************************************************************************)
(* C4                                                                      *)
(***************************************************************************)
\* C4: a Default call on the result of a successful Default call succeeds
\* and leaves every field as the first call left it.
C4_DefaultIdempotent ==
  (calls >= 2 /\ prevErr = NoError) => (err = NoError /\ obj = prev)

C4_Witness ==
  /\ calls = 2 /\ prevErr = NoError /\ err = NoError /\ obj = prev
  /\ MetricsEnabled(input.metrics)
  /\ input.metrics.listenAddress = <<"[", ":", ":", "1", "]", ":", "9", "0", "9", "0">>
  /\ input.metrics.listenPort = Nil
  /\ obj.metrics.listenAddress = <<>> /\ obj.metrics.listenPort = Int32Ptr(9090)

(***************************************************************************)
(* C5 and C6: what a valid "host:port" is, stated without the parser       *)
(***************************************************************************)
NoneOf(s, chars) == \A i \in 1..Len(s) : s[i] \notin chars

\* s splits at its colon i into a host and a port
SplitsAt(s, i) ==
  LET host == SubSeq(s, 1, i - 1)
      port == SubSeq(s, i + 1, Len(s)) IN
  /\ s[i] = ":"
  /\ NoneOf(port, {":", "[", "]"})
  /\ \/ NoneOf(host, {":", "[", "]"})
     \/ /\ Len(host) >= 2 /\ host[1] = "[" /\ host[Len(host)] = "]"
        /\ NoneOf(SubSeq(host, 2, Len(host) - 1), {"[", "]"})

RECURSIVE StripZeros(_)
StripZeros(s) == IF s # <<>> /\ s[1] = "0" THEN StripZeros(Tail(s)) ELSE s

\* a <= b for digit strings of one length
RECURSIVE DigitsLeq(_, _)
DigitsLeq(a, b) ==
  IF a = <<>> THEN TRUE
  ELSE IF DigitVal(a[1]) < DigitVal(b[1]) THEN TRUE
  ELSE IF DigitVal(a[1]) > DigitVal(b[1]) THEN FALSE
  ELSE DigitsLeq(Tail(a), Tail(b))

\* p is a base-10 integer of the signed 32-bit range
DecimalInt32(p) ==
  LET signed == p # <<>> /\ p[1] \in {"+", "-"}
      body == IF signed THEN Tail(p) ELSE p
      z == StripZeros(body)
      limit == IF signed /\ p[1] = "-"
               THEN <<"2", "1", "4", "7", "4", "8", "3", "6", "4", "8">>
               ELSE <<"2", "1", "4", "7", "4", "8", "3", "6", "4", "7">> IN
  /\ body # <<>>
  /\ \A i \in 1..Len(body) : IsDigit(body[i])
  /\ Len(z) < 10 \/ (Len(z) = 10 /\ DigitsLeq(z, limit))

ValidLegacyAddress(s) ==
  \E i \in 1..Len(s) : SplitsAt(s, i) /\ DecimalInt32(SubSeq(s, i + 1, Len(s)))

\* the migration precondition on the object Default received
MigrationDue ==
  /\ MetricsEnabled(input.metrics) /\ input.metrics.prometheus
  /\ input.metrics.listenAddress # <<>> /\ input.metrics.listenPort = Nil

ClaimHosts ==
  SampleHosts \cup {h \in Strings(2) : NoneOf(h, {":", "[", "]"})}

ClaimPorts == SamplePorts \cup {77, 777, -7, -77}

\* C5: when the migration is due and listenAddress is a valid host:port
\* whose port is a base-10 int32, Default succeeds, listenAddress is empty
\* and listenPort is that port as a number.
C5_LegacyAddressMigration ==
  (calls = 1 /\ MigrationDue) =>
    /\ ValidLegacyAddress(input.metrics.listenAddress) =>
         /\ err = NoError
         /\ obj.metrics.listenAddress = <<>>
         /\ obj.metrics.listenPort # Nil
    /\ \A h \in ClaimHosts, p \in ClaimPorts :
         input.metrics.listenAddress = HostPort(h, p) =>
           /\ err = NoError
           /\ obj.metrics.listenAddress = <<>>
           /\ obj.metrics.listenPort = Int32Ptr(p)

C5_Witness ==
  /\ calls = 1 /\ MigrationDue /\ err = NoError
  /\ input.metrics.listenAddress = HostPort(<<"h">>, MaxInt32)
  /\ obj.metrics.listenAddress = <<>>
  /\ obj.metrics.listenPort = Int32Ptr(MaxInt32)

\* C6: when the migration is due and listenAddress is not a valid host:port
\* with a base-10 int32 port, Default returns an error and the object is
\* left as it was received, without default-filling.
C6_MalformedLegacyAddress ==
  (calls = 1 /\ MigrationDue /\ ~ValidLegacyAddress(input.metrics.listenAddress)) =>
    /\ err.kind = "error"
    /\ obj = input
    /\ ~obj.defaulted

C6_Witness ==
  /\ calls = 1 /\ MigrationDue /\ err.kind = "error" /\ obj = input
  /\ input.metrics.listenAddress =
       <<"n", "o", "t", "-", "a", "n", "-", "a", "d", "d", "r", "e", "s", "s">>

(***************************************************************************)
(* C7                                                                      *)
(***************************************************************************)
\* C7: an update whose old version does not parse ends in a plain error,
\* never a structured rejection or an admission, and carries none of the
\* new object's field errors.
C7_UnparsableOldVersion ==
  (Validated /\ op = "UPDATE" /\ ~oldObj[1].version.ok) =>
    /\ err.kind = "error"
    /\ err.errs = <<>>
    /\ phase # "Admitted"

C7_Witness ==
  /\ op = "UPDATE" /\ phase = "Rejected" /\ obj.defaulted
  /\ ~oldObj[1].version.ok
  /\ Len(errList) = 3
  /\ err.kind = "error" /\ err.errs = <<>>

(***************************************************************************)
(* C8                                                                      *)
(***************************************************************************)
\* C8: the rejection lists every violated rule and no other, in the order
\* mTLS gate, version gate, search-backend gate, upgrade gate, and the
\* request is admitted exactly when no rule is violated.
C8_NoShortCircuit ==
  (Validated /\ OldParsable) =>
    /\ ReportedRules = ExpectedRules
    /\ Admitted <=> ExpectedRules = <<>>
    /\ phase = "Admitted" => ExpectedRules = <<>>
    /\ phase = "Rejected" => (StructuredRejection /\ ExpectedRules # <<>>)

C8_Witness ==
  /\ op = "UPDATE" /\ phase = "Rejected" /\ obj.defaulted
  /\ oldObj[1].version.ok
  /\ ReportedRules = <<"mtls", "version", "search", "upgrade">>

(***************************************************************************)
(* C9                                                                      *)
(***************************************************************************)
\* C9: the error list has a Forbidden entry at the Elasticsearch version
\* path if and only if the version is >= 1.18.0 and the visibility store is
\* Elasticsearch v6.
C9_LegacySearchBackendGate ==
  Validated =>
    /\ HasEntry(errList, "Forbidden", ElasticsearchVersionPath) <=> SearchGateViolated
    /\ HasEntryAt(errList, ElasticsearchVersionPath) <=> SearchGateViolated
    /\ OldParsable =>
         (HasEntry(err.errs, "Forbidden", ElasticsearchVersionPath) <=> SearchGateViolated)

C9_Witness ==
  /\ op = "CREATE" /\ phase = "Rejected" /\ obj.defaulted
  /\ obj.version = Version(1, 18, 0) /\ obj.advancedVisibilityStore = "v6"
  /\ err.errs = <<ElasticsearchV6Unsupported>>

(***************************************************************************)
(* C10                                                                     *)
(***************************************************************************)
\* C10: a delete request is never defaulted, validated or rejected, its
\* ValidateDelete returns no error whatever the object holds, and its one
\* step takes it from Received to Admitted.
C10_DeleteAlwaysAdmitted ==
  /\ [](op = "DELETE" =>
          /\ phase \in {"Received", "Admitted"}
          /\ err = NoError
          /\ obj = input /\ calls = 0)
  /\ [][(op = "DELETE" /\ phase = "Received") => phase' = "Admitted"]_vars

C10_Witness ==
  /\ op = "DELETE" /\ phase = "Admitted" /\ err = NoError
  /\ obj.mtls = "cert-manager" /\ ~caps
  /\ obj.advancedVisibilityStore = "v6"
  /\ obj.version = Version(2, 19, 0)

====
